---------------------------- MODULE Spec2Model ----------------------------
(***************************************************************************)
(* A model of the style resolution of usvg-parser (src/usvg-parser/src/   *)
(* style.rs) and of the tree queries of usvg-tree (src/usvg-tree/src/     *)
(* lib.rs).                                                                *)
(*                                                                         *)
(* A document is the chain of nodes from a node to the root, self first,   *)
(* as rosvgtree's ancestors() yields it.  A node maps every attribute id   *)
(* to the raw value it declares, or to Absent.  The resolvers are          *)
(* operators computed as the code computes them; each action draws the     *)
(* inputs of one call and stores what the call returns.                    *)
(***************************************************************************)
EXTENDS Integers, Sequences, FiniteSets, TLC

VARIABLES
    op,               \* the operation that ran last
    doc,              \* the node chain the operation ran on, self first
    has_bbox,         \* resolve_fill / resolve_stroke argument
    parent_clip_path, \* state.parent_clip_path.is_some()
    ret,              \* what the operation returned
    server_calls,     \* number of paint_server::convert calls the operation made
    group,            \* the Group that should_isolate is asked about
    tree,             \* the nodes of the usvg tree and of its resources
    defs,             \* the clip paths, masks, patterns and embedded trees
    arg               \* the arguments of the tree query that ran last

vars == <<op, doc, has_bbox, parent_clip_path, ret, server_calls, group, tree, defs, arg>>

(***************************************************************************)
(* Bounds of the model.                                                    *)
(***************************************************************************)
\* longest node chain (self .. root)
MaxDepth == 2
\* most attributes declared in one document of the paint families
MaxAttrs == 2
\* longest declared stroke-dasharray list
MaxDashLen == 3
\* largest magnitude of a declared dash length
MaxDashVal == 3
\* most filters pushed on a group
MaxFilters == 2
\* nodes of a tree
MaxNodes == 3
\* nodes of a tree that is searched
MaxNamed == 4

\* nodes of a tree with resources, and resources
MaxTextNodes == 4

MaxDefs == 2

(***************************************************************************)
(* Option<T>.                                                              *)
(***************************************************************************)
None == [some |-> FALSE]

Some(x) == [some |-> TRUE, v |-> x]

(***************************************************************************)
(* Opacity = NormalizedF64: a number in [0,1], held in quarters so that    *)
(* the products of the values used here (0, 1/2, 1) are exact.             *)
(***************************************************************************)
ONE == 4

HALF == ONE \div 2

\* NormalizedF64 * NormalizedF64
OpacityMul(a, b) == (a * b) \div ONE

\* NormalizedF64::new_clamped
OpacityClamped(n) == IF n < 0 THEN 0 ELSE IF n > ONE THEN ONE ELSE n

(***************************************************************************)
(* Colours.  svgtypes::Color carries an alpha; usvg_tree::Color does not.  *)
(***************************************************************************)
SvgColor(rgb, a) == [rgb |-> rgb, a |-> a]

\* svgtypes::Color::black(): opaque black
SvgBlack == SvgColor("black", ONE)

\* usvg_tree::Color::black()
ColorBlack == "black"

\* SvgColorExt::split_alpha: (Color, Opacity)
split_alpha(c) == [color |-> c.rgb, alpha |-> c.a]

(***************************************************************************)
(* usvg_tree::Paint and Paint::units().                                    *)
(***************************************************************************)
PaintColor(rgb) == [t |-> "Color", rgb |-> rgb]

PaintServer(kind, id, u) == [t |-> kind, id |-> id, units |-> u]

units(paint) == IF paint.t = "Color" THEN None ELSE Some(paint.units)

(***************************************************************************)
(* Attributes and raw attribute values.                                    *)
(***************************************************************************)
AIdSeq == <<"fill", "stroke", "fill-opacity", "stroke-opacity", "fill-rule",
           "clip-rule", "color", "stroke-width", "stroke-miterlimit",
           "stroke-dasharray", "stroke-dashoffset", "stroke-linecap",
           "stroke-linejoin">>

AIds == {AIdSeq[i] : i \in 1..Len(AIdSeq)}

Absent == [k |-> "absent"]

Text(s) == [k |-> "text", s |-> s]

Num(n) == [k |-> "num", n |-> n]

List(l) == [k |-> "list", l |-> l]

ColorText(rgb, a) == [k |-> "color", rgb |-> rgb, a |-> a]

UrlText(id, fb) == [k |-> "url", id |-> id, fb |-> fb]

BlankNode == [a \in AIds |-> Absent]

\* rosvgtree::Node::has_attribute
has_attribute(d, n, aid) == d[n][aid].k # "absent"

\* rosvgtree::Node::ancestors: the node itself first, the root last
ancestors(d, n) == n..Len(d)

\* node.ancestors().find(|n| n.has_attribute(aid)): 0 when there is none
find_declarer(d, n, aid) ==
    LET S == {j \in ancestors(d, n) : has_attribute(d, j, aid)}
    IN  IF S = {} THEN 0 ELSE CHOOSE j \in S : \A i \in S : j <= i


(***************************************************************************)
(* Typed parsing of raw values.                                            *)
(***************************************************************************)
\* FromValue for usvg_tree::LineCap
parse_LineCap(value) ==
    IF value.k # "text" THEN None
    ELSE CASE value.s = "butt" -> Some("Butt")
           [] value.s = "round" -> Some("Round")
           [] value.s = "square" -> Some("Square")
           [] OTHER -> None

\* FromValue for usvg_tree::LineJoin
parse_LineJoin(value) ==
    IF value.k # "text" THEN None
    ELSE CASE value.s = "miter" -> Some("Miter")
           [] value.s = "round" -> Some("Round")
           [] value.s = "bevel" -> Some("Bevel")
           [] OTHER -> None

\* FromValue for usvg_tree::FillRule
parse_FillRule(value) ==
    IF value.k # "text" THEN None
    ELSE CASE value.s = "nonzero" -> Some("NonZero")
           [] value.s = "evenodd" -> Some("EvenOdd")
           [] OTHER -> None

\* FromValue for svgtypes::Color
parse_Color(value) ==
    IF value.k = "color" THEN Some(SvgColor(value.rgb, value.a)) ELSE None

\* FromValue for f64
parse_f64(value) == IF value.k = "num" THEN Some(value.n) ELSE None

\* FromValue for OpacityWrapper: a number, clamped to [0,1]
parse_OpacityWrapper(value) ==
    IF value.k = "num" THEN Some(OpacityClamped(value.n)) ELSE None

\* FromValue::parse, by the type the attribute is read as
parse(aid, value) ==
    CASE aid \in {"fill-rule", "clip-rule"} -> parse_FillRule(value)
      [] aid = "stroke-linecap" -> parse_LineCap(value)
      [] aid = "stroke-linejoin" -> parse_LineJoin(value)
      [] aid = "color" -> parse_Color(value)
      [] aid \in {"fill-opacity", "stroke-opacity"} -> parse_OpacityWrapper(value)
      [] OTHER -> parse_f64(value)

\* SvgNodeExt2::parse_attribute: the node's own attribute only
parse_attribute(d, n, aid) ==
    IF has_attribute(d, n, aid) THEN parse(aid, d[n][aid]) ELSE None

\* SvgNodeExt2::find_and_parse_attribute: the nearest declarer's value
find_and_parse_attribute(d, n, aid) ==
    LET j == find_declarer(d, n, aid)
    IN  IF j = 0 THEN None ELSE parse(aid, d[j][aid])

unwrap_or(o, def) == IF o.some THEN o.v ELSE def

\* FillRule::default()
FillRuleDefault == "NonZero"

\* svgtypes::PaintFallback from the text after the IRI
parse_PaintFallback(fb) ==
    CASE fb.k = "absent" -> Some(None)
      [] fb.k = "text" /\ fb.s = "none" -> Some(Some([f |-> "None"]))
      [] fb.k = "text" /\ fb.s = "currentColor" -> Some(Some([f |-> "CurrentColor"]))
      [] fb.k = "color" -> Some(Some([f |-> "Color", c |-> SvgColor(fb.rgb, fb.a)]))
      [] OTHER -> None

\* svgtypes::Paint::from_str: Some(paint) for Ok, None for Err
Paint_from_str(value) ==
    CASE value.k = "text" /\ value.s = "none" -> Some([p |-> "None"])
      [] value.k = "text" /\ value.s = "inherit" -> Some([p |-> "Inherit"])
      [] value.k = "text" /\ value.s = "currentColor" -> Some([p |-> "CurrentColor"])
      [] value.k = "color" -> Some([p |-> "Color", c |-> SvgColor(value.rgb, value.a)])
      [] value.k = "url" ->
            LET fb == parse_PaintFallback(value.fb)
            IN  IF fb.some
                THEN Some([p |-> "FuncIRI", iri |-> value.id, fallback |-> fb.v])
                ELSE None
      [] OTHER -> None

(***************************************************************************)
(* The elements of the document that a functional IRI can name.            *)
(***************************************************************************)
Stop(rgb, o) == [color |-> rgb, opacity |-> o]

Elements ==
    [id \in {"lgObb", "patUser", "lgFlat", "lgCyc", "rect"} |->
        CASE id = "lgObb" ->
                [tag |-> "linearGradient", units |-> "ObjectBoundingBox",
                 stops |-> <<Stop("red", ONE), Stop("blue", ONE)>>, cyclic |-> FALSE]
          [] id = "patUser" ->
                [tag |-> "pattern", units |-> "UserSpaceOnUse",
                 stops |-> <<>>, cyclic |-> FALSE]
          [] id = "lgFlat" ->
                [tag |-> "linearGradient", units |-> "ObjectBoundingBox",
                 stops |-> <<Stop("blue", HALF)>>, cyclic |-> FALSE]
          [] id = "lgCyc" ->
                [tag |-> "linearGradient", units |-> "UserSpaceOnUse",
                 stops |-> <<Stop("red", ONE), Stop("blue", ONE)>>, cyclic |-> TRUE]
          [] OTHER ->
                [tag |-> "rect", units |-> "UserSpaceOnUse",
                 stops |-> <<>>, cyclic |-> FALSE]]

\* every id a paint refers to; "gone" names no element
IriIds == DOMAIN Elements \cup {"gone"}

\* rosvgtree::Document::element_by_id
element_by_id(id) ==
    IF id \in DOMAIN Elements THEN Some([id |-> id] @@ Elements[id]) ELSE None

\* EId::is_paint_server
is_paint_server(tag) == tag \in {"linearGradient", "radialGradient", "pattern"}

\* paint_server::convert: a server, a flat colour, or nothing
paint_server_convert(link) ==
    CASE link.cyclic -> None
      [] link.tag = "pattern" ->
            Some([s |-> "Server", paint |-> PaintServer("Pattern", link.id, link.units)])
      [] Len(link.stops) = 1 ->
            Some([s |-> "Color", color |-> link.stops[1].color,
                  opacity |-> link.stops[1].opacity])
      [] Len(link.stops) >= 2 ->
            Some([s |-> "Server",
                  paint |-> PaintServer("LinearGradient", link.id, link.units)])
      [] OTHER -> None

(***************************************************************************)
(* Paint interpretation.  A paint result is the Option<Paint> returned,    *)
(* the value left in the opacity out-parameter, and the number of calls    *)
(* made to paint_server::convert.                                          *)
(***************************************************************************)
PaintRes(paint, opacity, calls) ==
    [paint |-> paint, opacity |-> opacity, calls |-> calls]

\* the colour arms shared by convert_paint and from_fallback
color_paint(svg_color) ==
    LET sa == split_alpha(svg_color)
    IN  PaintRes(Some(PaintColor(sa.color)), sa.alpha, 0)

\* the currentColor arms: `color` is looked up from the declaring node
current_color(d, n) ==
    unwrap_or(find_and_parse_attribute(d, n, "color"), SvgBlack)

from_fallback(d, n, fallback, opacity) ==
    IF ~fallback.some THEN PaintRes(None, opacity, 0)
    ELSE CASE fallback.v.f = "None" -> PaintRes(None, opacity, 0)
           [] fallback.v.f = "CurrentColor" -> color_paint(current_color(d, n))
           [] fallback.v.f = "Color" -> color_paint(fallback.v.c)

\* an Err arm that gives up for fill as it does for stroke
unparsable_paint_none(aid) == None

\* an Err arm that falls back to black for stroke as it does for fill
unparsable_paint_black(aid) == Some([p |-> "Color", c |-> SvgBlack])

\* convert_paint, Err arm of Paint::from_str
unparsable_paint(aid) ==
    IF aid = "fill" THEN Some([p |-> "Color", c |-> SvgBlack]) ELSE None

\* a server arm that never asks whether the shape has a bounding box
server_paint_any_bbox(d, n, link, fallback, hb, opacity) ==
    LET conv == paint_server_convert(link)
        fb == from_fallback(d, n, fallback, opacity)
    IN  IF ~conv.some THEN PaintRes(fb.paint, fb.opacity, 1)
        ELSE IF conv.v.s = "Server" THEN PaintRes(Some(conv.v.paint), opacity, 1)
        ELSE PaintRes(Some(PaintColor(conv.v.color)), conv.v.opacity, 1)

\* convert_paint, the link is a paint server
server_paint(d, n, link, fallback, hb, opacity) ==
    LET conv == paint_server_convert(link)
        fb == from_fallback(d, n, fallback, opacity)
    IN  IF ~conv.some THEN PaintRes(fb.paint, fb.opacity, 1)
        ELSE IF conv.v.s = "Server"
        THEN IF ~hb /\ units(conv.v.paint) = Some("ObjectBoundingBox")
             THEN PaintRes(fb.paint, fb.opacity, 1)
             ELSE PaintRes(Some(conv.v.paint), opacity, 1)
        ELSE PaintRes(Some(PaintColor(conv.v.color)), conv.v.opacity, 1)

\* a link to some other element treated like a missing link
not_a_paint_server_fallback(d, n, fallback, opacity) ==
    from_fallback(d, n, fallback, opacity)

\* convert_paint, the link is some other element
not_a_paint_server(d, n, fallback, opacity) == PaintRes(None, opacity, 0)

\* convert_paint, no element has the id
missing_link(d, n, fallback, opacity) == from_fallback(d, n, fallback, opacity)

\* convert_paint, FuncIRI arm
func_iri_paint(d, n, func_iri, fallback, hb, opacity) ==
    LET link == element_by_id(func_iri)
    IN  IF link.some
        THEN IF is_paint_server(link.v.tag)
             THEN server_paint(d, n, link.v, fallback, hb, opacity)
             ELSE not_a_paint_server(d, n, fallback, opacity)
        ELSE missing_link(d, n, fallback, opacity)

convert_paint(d, n, aid, hb, opacity) ==
    IF ~has_attribute(d, n, aid) THEN PaintRes(None, opacity, 0)
    ELSE LET parsed == Paint_from_str(d[n][aid])
             paint == IF parsed.some THEN parsed ELSE unparsable_paint(aid)
         IN  IF ~paint.some THEN PaintRes(None, opacity, 0)
             ELSE CASE paint.v.p = "None" -> PaintRes(None, opacity, 0)
                    [] paint.v.p = "Inherit" -> PaintRes(None, opacity, 0)
                    [] paint.v.p = "CurrentColor" -> color_paint(current_color(d, n))
                    [] paint.v.p = "Color" -> color_paint(paint.v.c)
                    [] paint.v.p = "FuncIRI" ->
                          func_iri_paint(d, n, paint.v.iri, paint.v.fallback,
                                         hb, opacity)

(***************************************************************************)
(* resolve_fill.  A call result is the Option returned and the number of   *)
(* paint_server::convert calls made.                                       *)
(***************************************************************************)
CallRes(val, calls) == [val |-> val, calls |-> calls]

Fill(paint, opacity, rule) == [paint |-> paint, opacity |-> opacity, rule |-> rule]

\* a clip-path fill that takes its rule from fill-rule
clip_fill_by_fill_rule(d, n) ==
    Some(Fill(PaintColor(ColorBlack), ONE,
              unwrap_or(find_and_parse_attribute(d, n, "fill-rule"), FillRuleDefault)))

\* resolve_fill inside clip-path content
clip_fill(d, n) ==
    Some(Fill(PaintColor(ColorBlack), ONE,
              unwrap_or(find_and_parse_attribute(d, n, "clip-rule"), FillRuleDefault)))

\* a resolve_fill that leaves an undeclared fill unpainted
undeclared_fill_none == PaintRes(None, ONE, 0)

\* resolve_fill, no node of the chain declares `fill`
undeclared_fill == PaintRes(Some(PaintColor(ColorBlack)), ONE, 0)

\* a resolve_fill that paints black whenever convert_paint gives no paint
fill_paint_or_black(d, n, hb) ==
    LET j == find_declarer(d, n, "fill")
        cp == convert_paint(d, j, "fill", hb, ONE)
    IN  IF j # 0 /\ cp.paint.some THEN cp ELSE undeclared_fill

\* resolve_fill, the paint of the fill
fill_paint(d, n, hb) ==
    LET j == find_declarer(d, n, "fill")
    IN  IF j # 0 THEN convert_paint(d, j, "fill", hb, ONE) ELSE undeclared_fill

\* a fill-opacity found like an inherited attribute
fill_opacity_inherited(d, n) ==
    unwrap_or(find_and_parse_attribute(d, n, "fill-opacity"), ONE)

\* resolve_fill, the node's own fill-opacity
fill_opacity(d, n) == unwrap_or(parse_attribute(d, n, "fill-opacity"), ONE)

\* resolve_fill, the rule of a fill outside clip-path content
fill_rule(d, n) ==
    unwrap_or(find_and_parse_attribute(d, n, "fill-rule"), FillRuleDefault)

resolve_fill(d, n, hb, clip) ==
    IF clip THEN CallRes(clip_fill(d, n), 0)
    ELSE LET cp == fill_paint(d, n, hb)
         IN  IF ~cp.paint.some THEN CallRes(None, cp.calls)
             ELSE CallRes(Some(Fill(cp.paint.v,
                                    OpacityMul(cp.opacity, fill_opacity(d, n)),
                                    fill_rule(d, n))),
                          cp.calls)

(***************************************************************************)
(* f64 as the dash lengths need it: a sign bit and a magnitude, so that    *)
(* -0.0 and +0.0 differ.  Magnitudes are counted in units of the fuzzy     *)
(* tolerance; sums of such small integers are exact.                       *)
(***************************************************************************)
F(neg, mag) == [neg |-> neg, mag |-> mag]

PosZero == F(FALSE, 0)

NegZero == F(TRUE, 0)

\* the real number a float stands for
Val(x) == IF x.neg THEN 0 - x.mag ELSE x.mag

\* f64::is_sign_negative: the sign bit, set for -0.0 too
is_sign_negative(x) == x.neg

\* f64 + f64
f64_add(x, y) ==
    LET v == Val(x) + Val(y)
    IN  IF v > 0 THEN F(FALSE, v)
        ELSE IF v < 0 THEN F(TRUE, 0 - v)
        ELSE F(x.neg /\ y.neg, 0)

\* the tolerance of FuzzyEq
FuzzyTol == 1

\* FuzzyEq::fuzzy_eq for f64
fuzzy_eq(x, y) ==
    LET diff == Val(x) - Val(y)
    IN  diff <= FuzzyTol /\ 0 - diff <= FuzzyTol

(***************************************************************************)
(* conv_dasharray.                                                         *)
(***************************************************************************)
\* units::convert_list: the declared list as absolute lengths
convert_list(d, n, aid) ==
    IF d[n][aid].k = "list" THEN Some(d[n][aid].l) ELSE None

\* a negative test by value, which lets -0.0 through
any_negative_by_value(list) == \E i \in 1..Len(list) : Val(list[i]) < 0

\* `A negative value is an error`
any_negative(list) == \E i \in 1..Len(list) : is_sign_negative(list[i])

\* the loop that sums the list, starting from 0.0
RECURSIVE sum_from(_, _, _)
sum_from(list, i, sum) ==
    IF i > Len(list) THEN sum ELSE sum_from(list, i + 1, f64_add(sum, list[i]))

\* `If the sum of the values is zero ...`
zero_sum(list) == fuzzy_eq(sum_from(list, 1, PosZero), PosZero)

\* a list left as given, odd or even
even_list_as_given(list) == list

\* `If an odd number of values is provided, then the list is repeated`
even_list(list) == IF Len(list) % 2 # 0 THEN list \o list ELSE list

conv_dasharray(d, n) ==
    LET j == find_declarer(d, n, "stroke-dasharray")
    IN  IF j = 0 THEN None
        ELSE LET list == convert_list(d, j, "stroke-dasharray")
             IN  IF ~list.some THEN None
                 ELSE IF any_negative(list.v) THEN None
                 ELSE IF zero_sum(list.v) THEN None
                 ELSE Some(even_list(list.v))

(***************************************************************************)
(* resolve_stroke.  stroke-miterlimit is counted in halves, stroke-width   *)
(* and stroke-dashoffset in user units.                                    *)
(***************************************************************************)
\* 1.0 as a miter limit
MiterOne == 2

\* 4.0, the miter limit when none is declared
MiterDefault == 8

\* 1.0, the stroke width when none is declared
WidthDefault == 1

\* 0.0, the dash offset when none is declared
DashoffsetDefault == 0

\* SvgNodeExt::resolve_length: the nearest declarer's length, or the default
resolve_length(d, n, aid, def) ==
    LET j == find_declarer(d, n, aid)
    IN  IF j = 0 THEN Some(def) ELSE parse_f64(d[j][aid])

\* SvgNodeExt::resolve_valid_length: none unless the length is above zero
resolve_valid_length(d, n, aid, def) ==
    LET len == resolve_length(d, n, aid, def)
    IN  IF len.some /\ len.v > 0 THEN len ELSE None

\* StrokeMiterlimit::new
StrokeMiterlimit_new(n) == IF ~(n >= MiterOne) THEN MiterOne ELSE n

\* a miter limit passed on as it was requested
miterlimit_as_requested(d, n) ==
    unwrap_or(find_and_parse_attribute(d, n, "stroke-miterlimit"), MiterDefault)

\* resolve_stroke, `Must be bigger than 1.`: what StrokeMiterlimit::new is given
miterlimit_at_least_one(d, n) ==
    LET miterlimit == unwrap_or(find_and_parse_attribute(d, n, "stroke-miterlimit"),
                                MiterDefault)
    IN  IF miterlimit < MiterOne THEN MiterOne ELSE miterlimit

\* resolve_stroke, the miter limit of the stroke
stroke_miterlimit(d, n) == StrokeMiterlimit_new(miterlimit_at_least_one(d, n))

\* resolve_stroke, the node's own stroke-opacity
stroke_opacity(d, n) == unwrap_or(parse_attribute(d, n, "stroke-opacity"), ONE)

\* resolve_stroke, no node of the chain declares `stroke`
undeclared_stroke == PaintRes(None, ONE, 0)

\* a stroke paint taken from the nearest declarer whose value is a paint
stroke_paint_first_valid(d, n, hb) ==
    LET S == {j \in ancestors(d, n) :
                has_attribute(d, j, "stroke")
                /\ convert_paint(d, j, "stroke", hb, ONE).paint.some}
    IN  IF S = {} THEN undeclared_stroke
        ELSE convert_paint(d, CHOOSE j \in S : \A i \in S : j <= i, "stroke", hb, ONE)

\* resolve_stroke, the paint of the stroke
stroke_paint(d, n, hb) ==
    LET j == find_declarer(d, n, "stroke")
    IN  IF j # 0 THEN convert_paint(d, j, "stroke", hb, ONE) ELSE undeclared_stroke

\* resolve_stroke inside clip-path content
clip_stroke(d, n) == None

resolve_stroke(d, n, hb, clip) ==
    IF clip THEN CallRes(clip_stroke(d, n), 0)
    ELSE LET cp == stroke_paint(d, n, hb)
             width == resolve_valid_length(d, n, "stroke-width", WidthDefault)
             dashoffset == resolve_length(d, n, "stroke-dashoffset", DashoffsetDefault)
         IN  IF ~cp.paint.some THEN CallRes(None, cp.calls)
             ELSE IF ~width.some THEN CallRes(None, cp.calls)
             ELSE CallRes(Some([paint |-> cp.paint.v,
                                dasharray |-> conv_dasharray(d, n),
                                dashoffset |-> unwrap_or(dashoffset, DashoffsetDefault),
                                miterlimit |-> stroke_miterlimit(d, n),
                                opacity |-> OpacityMul(cp.opacity, stroke_opacity(d, n)),
                                width |-> width.v,
                                linecap |-> unwrap_or(find_and_parse_attribute(
                                                d, n, "stroke-linecap"), "Butt"),
                                linejoin |-> unwrap_or(find_and_parse_attribute(
                                                d, n, "stroke-linejoin"), "Miter")]),
                          cp.calls)

(***************************************************************************)
(* Group and should_isolate.                                               *)
(***************************************************************************)
BlendModes == {"Normal", "Multiply", "Screen", "Overlay", "Darken", "Lighten",
               "ColorDodge", "ColorBurn", "HardLight", "SoftLight", "Difference",
               "Exclusion", "Hue", "Saturation", "Color", "Luminosity"}

\* Group::default()
Group_default ==
    [opacity |-> ONE, blend_mode |-> "Normal", isolate |-> FALSE,
     clip_path |-> None, mask |-> None, filters |-> <<>>,
     filter_fill |-> None, filter_stroke |-> None, enable_background |-> None]

\* a should_isolate that forgets the blend mode
should_isolate_no_blend(g) ==
    \/ g.isolate
    \/ g.opacity # ONE
    \/ g.clip_path.some
    \/ g.mask.some
    \/ Len(g.filters) > 0

\* Group::should_isolate
should_isolate(g) ==
    \/ g.isolate
    \/ g.opacity # ONE
    \/ g.clip_path.some
    \/ g.mask.some
    \/ g.filters # <<>>
    \/ g.blend_mode # "Normal"

(***************************************************************************)
(* The documents the calls are made on.                                    *)
(***************************************************************************)
FallbackTexts == {Absent, Text("none"), Text("currentColor"), ColorText("blue", HALF)}

\* what `fill` and `stroke` are declared as
PaintTexts ==
    {Text("none"), Text("inherit"), Text("currentColor"), ColorText("red", HALF),
     Text("bogus")}
    \cup {UrlText(id, fb) : id \in {"lgObb", "lgCyc", "rect", "gone"},
                              fb \in FallbackTexts}
    \cup {UrlText(id, fb) : id \in {"patUser", "lgFlat"},
                              fb \in {Absent, ColorText("blue", HALF)}}

OpacityTexts == {Num(HALF), Num(ONE + HALF), Text("bogus")}

\* what the first node of a document declares each attribute as
SelfVals ==
    [a \in AIds |->
        CASE a \in {"fill", "stroke"} -> PaintTexts
          [] a \in {"fill-opacity", "stroke-opacity"} -> OpacityTexts
          [] a = "fill-rule" -> {Text("nonzero"), Text("evenodd"), Text("bogus")}
          [] a = "clip-rule" -> {Text("evenodd"), Text("bogus")}
          [] a = "color" -> {ColorText("blue", HALF), Text("bogus")}
          [] a = "stroke-width" -> {Num(0), Num(2)}
          [] a = "stroke-miterlimit" -> {Num(1), Num(20)}
          [] a = "stroke-dasharray" ->
                {List(<<F(FALSE, 1), F(FALSE, 2), F(FALSE, 3)>>), List(<<F(TRUE, 1)>>)}
          [] a = "stroke-dashoffset" -> {Num(1)}
          [] a = "stroke-linecap" -> {Text("round")}
          [] a = "stroke-linejoin" -> {Text("bevel")}]

\* what its ancestors declare each attribute as: one value of every kind
AncestorVals ==
    [a \in AIds |->
        CASE a \in {"fill", "stroke"} ->
                {Text("none"), Text("currentColor"), ColorText("red", HALF),
                 Text("bogus"), UrlText("lgObb", ColorText("blue", HALF))}
          [] a \in {"fill-opacity", "stroke-opacity"} -> {Num(HALF)}
          [] a = "fill-rule" -> {Text("evenodd")}
          [] a = "clip-rule" -> {Text("evenodd")}
          [] a = "color" -> {ColorText("blue", HALF)}
          [] a = "stroke-width" -> {Num(0)}
          [] a = "stroke-miterlimit" -> {Num(1)}
          [] a = "stroke-dasharray" ->
                {List(<<F(FALSE, 1), F(FALSE, 2), F(FALSE, 3)>>)}
          [] OTHER -> {}]

StyleVals(n, a) == IF n = 1 THEN SelfVals[a] ELSE AncestorVals[a]

\* the attributes of the nodes of a chain, numbered node by node
SlotNode(slot) == ((slot - 1) \div Len(AIdSeq)) + 1

SlotAId(slot) == AIdSeq[((slot - 1) % Len(AIdSeq)) + 1]

Slots(d) == 1..(Len(d) * Len(AIdSeq))

\* the slots of d that hold a declaration
DeclaredSlots(d) == {s \in Slots(d) : has_attribute(d, SlotNode(s), SlotAId(s))}

\* the dash lengths a list is made of
DashVals == {F(TRUE, m) : m \in 0..1} \cup {F(FALSE, m) : m \in 0..MaxDashVal}

DashLists == UNION {[1..len -> DashVals] : len \in 0..MaxDashLen}

\* what stroke-dasharray is declared as
DashTexts == {List(l) : l \in DashLists} \cup {Text("bogus"), Absent}

\* what the other nodes of a chain declare stroke-dasharray as
DashOthers == {Absent, List(<<F(FALSE, 2), F(FALSE, 2)>>)}

\* a chain of len nodes: node i declares stroke-dasharray as t, node j # i as
\* o[j], and the root declares `stroke` as paint
DashDoc(len, i, t, o, paint) ==
    [j \in 1..len |->
        [BlankNode EXCEPT !["stroke-dasharray"] = IF j = i THEN t ELSE o[j],
                          !["stroke"] = IF j = len THEN paint ELSE Absent]]

\* the groups' opacities
Opacities == {0, HALF, ONE}

(***************************************************************************)
(* Style resolution: a call of resolve_fill or resolve_stroke on the first *)
(* node of a document, with the flags of the call.                         *)
(***************************************************************************)
Init ==
    /\ op = "init"
    /\ doc \in {[j \in 1..len |-> BlankNode] : len \in 1..MaxDepth}
    /\ has_bbox \in BOOLEAN
    /\ parent_clip_path \in BOOLEAN
    /\ ret = None
    /\ server_calls = 0
    /\ group = Group_default
    /\ tree = <<>>
    /\ defs = <<>>
    /\ arg = None

\* the document gets one more attribute declaration, before any call is made
\* (declarations are added in slot order, so each document is built one way)
Declare ==
    /\ op = "init"
    /\ Cardinality(DeclaredSlots(doc)) < MaxAttrs
    /\ \E slot \in Slots(doc) :
          /\ \A s \in DeclaredSlots(doc) : s < slot
          /\ \E v \in StyleVals(SlotNode(slot), SlotAId(slot)) :
                doc' = [doc EXCEPT ![SlotNode(slot)][SlotAId(slot)] = v]
    /\ UNCHANGED <<op, has_bbox, parent_clip_path, ret, server_calls, group, tree, defs, arg>>

ResolveFill ==
    LET r == resolve_fill(doc, 1, has_bbox, parent_clip_path)
    IN  /\ op' = "resolve_fill"
        /\ ret' = r.val
        /\ server_calls' = r.calls
        /\ UNCHANGED <<doc, has_bbox, parent_clip_path, group, tree, defs, arg>>

ResolveStroke ==
    LET r == resolve_stroke(doc, 1, has_bbox, parent_clip_path)
    IN  /\ op' = "resolve_stroke"
        /\ ret' = r.val
        /\ server_calls' = r.calls
        /\ UNCHANGED <<doc, has_bbox, parent_clip_path, group, tree, defs, arg>>

Next == Declare \/ ResolveFill \/ ResolveStroke

Spec == Init /\ [][Next]_vars

(***************************************************************************)
(* Dash arrays: conv_dasharray alone, and through resolve_stroke.          *)
(***************************************************************************)
InitDash ==
    /\ op = "init"
    /\ \E len \in 1..MaxDepth, i \in 1..MaxDepth, t \in DashTexts,
          o \in [1..MaxDepth -> DashOthers], paint \in {Absent, ColorText("red", ONE)} :
            /\ i <= len
            /\ doc = DashDoc(len, i, t, o, paint)
    /\ has_bbox = TRUE
    /\ parent_clip_path = FALSE
    /\ ret = None
    /\ server_calls = 0
    /\ group = Group_default
    /\ tree = <<>>
    /\ defs = <<>>
    /\ arg = None

ConvDasharray ==
    /\ op' = "conv_dasharray"
    /\ ret' = conv_dasharray(doc, 1)
    /\ server_calls' = 0
    /\ UNCHANGED <<doc, has_bbox, parent_clip_path, group, tree, defs, arg>>

NextDash == ConvDasharray \/ ResolveStroke

SpecDash == InitDash /\ [][NextDash]_vars

(***************************************************************************)
(* Groups: the fields of a Group are assigned, and should_isolate asked.   *)
(***************************************************************************)
InitGroup ==
    /\ op = "init"
    /\ doc = <<BlankNode>>
    /\ has_bbox = TRUE
    /\ parent_clip_path = FALSE
    /\ ret = None
    /\ server_calls = 0
    /\ group = Group_default
    /\ tree = <<>>
    /\ defs = <<>>
    /\ arg = None

SetIsolate ==
    \E b \in BOOLEAN :
        /\ group' = [group EXCEPT !.isolate = b]
        /\ op' = "edit"
        /\ ret' = None
        /\ UNCHANGED <<doc, has_bbox, parent_clip_path, server_calls, tree, defs, arg>>

SetOpacity ==
    \E o \in Opacities :
        /\ group' = [group EXCEPT !.opacity = o]
        /\ op' = "edit"
        /\ ret' = None
        /\ UNCHANGED <<doc, has_bbox, parent_clip_path, server_calls, tree, defs, arg>>

SetBlendMode ==
    \E m \in BlendModes :
        /\ group' = [group EXCEPT !.blend_mode = m]
        /\ op' = "edit"
        /\ ret' = None
        /\ UNCHANGED <<doc, has_bbox, parent_clip_path, server_calls, tree, defs, arg>>

SetClipPath ==
    \E c \in {None, Some("clip1")} :
        /\ group' = [group EXCEPT !.clip_path = c]
        /\ op' = "edit"
        /\ ret' = None
        /\ UNCHANGED <<doc, has_bbox, parent_clip_path, server_calls, tree, defs, arg>>

SetMask ==
    \E m \in {None, Some("mask1")} :
        /\ group' = [group EXCEPT !.mask = m]
        /\ op' = "edit"
        /\ ret' = None
        /\ UNCHANGED <<doc, has_bbox, parent_clip_path, server_calls, tree, defs, arg>>

PushFilter ==
    /\ Len(group.filters) < MaxFilters
    /\ group' = [group EXCEPT !.filters = Append(@, "filter1")]
    /\ op' = "edit"
    /\ ret' = None
    /\ UNCHANGED <<doc, has_bbox, parent_clip_path, server_calls, tree, defs, arg>>

PopFilter ==
    /\ group.filters # <<>>
    /\ group' = [group EXCEPT !.filters = Tail(@)]
    /\ op' = "edit"
    /\ ret' = None
    /\ UNCHANGED <<doc, has_bbox, parent_clip_path, server_calls, tree, defs, arg>>

ShouldIsolate ==
    /\ op' = "should_isolate"
    /\ ret' = Some(should_isolate(group))
    /\ UNCHANGED <<doc, has_bbox, parent_clip_path, server_calls, group, tree, defs, arg>>

NextGroup ==
    \/ SetIsolate
    \/ SetOpacity
    \/ SetBlendMode
    \/ SetClipPath
    \/ SetMask
    \/ PushFilter
    \/ PopFilter
    \/ ShouldIsolate

SpecGroup == InitGroup /\ [][NextGroup]_vars

(***************************************************************************)
(* The usvg tree.  `tree` is the sequence of its nodes in the order they   *)
(* were appended, so that the children of a node, taken by rising index,   *)
(* are in sibling order.  A node names its parent, 0 for a root.           *)
(***************************************************************************)
Transform(a, b, c, d, e, f) == [a |-> a, b |-> b, c |-> c, d |-> d, e |-> e, f |-> f]

\* Transform::default(): the identity
Transform_default == Transform(1, 0, 0, 1, 0, 0)

\* Transform::append: ts, then what it is appended to
Transform_append(ts, other) ==
    Transform(ts.a * other.a + ts.c * other.b,
              ts.b * other.a + ts.d * other.b,
              ts.a * other.c + ts.c * other.d,
              ts.b * other.c + ts.d * other.d,
              ts.a * other.e + ts.c * other.f + ts.e,
              ts.b * other.e + ts.d * other.f + ts.f)

\* Transform::apply to a point
Transform_apply(ts, x, y) ==
    [x |-> ts.a * x + ts.c * y + ts.e, y |-> ts.b * x + ts.d * y + ts.f]

Rect(x, y, w, h) == [x |-> x, y |-> y, w |-> w, h |-> h]

\* a Group, Path, Image or Text node as the queries of the tree read it
TreeNode(kind, parent, id, transform, data, enable_background) ==
    [kind |-> kind, parent |-> parent, id |-> id, transform |-> transform,
     data |-> data, enable_background |-> enable_background,
     clip_path |-> None, mask |-> None, fill |-> None, stroke |-> None,
     svg |-> None]

\* NodeKind::transform
node_transform(t, n) == t[n].transform

\* NodeKind::id
node_id(t, n) == t[n].id

\* rctree::Node::children, first to last
RECURSIVE children_from(_, _, _)
children_from(t, p, i) ==
    IF i > Len(t) THEN <<>>
    ELSE (IF t[i].parent = p THEN <<i>> ELSE <<>>) \o children_from(t, p, i + 1)

children(t, p) == children_from(t, p, 1)

\* rctree::Node::ancestors: the node itself, then its parent, up to the root
RECURSIVE tree_ancestors(_, _)
tree_ancestors(t, n) ==
    IF n = 0 THEN <<>> ELSE <<n>> \o tree_ancestors(t, t[n].parent)

\* rctree::Node::descendants: the node itself, then its subtree in pre-order
RECURSIVE descendants(_, _)
RECURSIVE descendants_of(_, _)
descendants_of(t, cs) ==
    IF cs = <<>> THEN <<>>
    ELSE descendants(t, Head(cs)) \o descendants_of(t, Tail(cs))

descendants(t, n) == <<n>> \o descendants_of(t, children(t, n))

\* Iterator::skip(1)
skip_1(list) == IF list = <<>> THEN <<>> ELSE Tail(list)

\* Vec of the transforms of the nodes of a list
RECURSIVE ts_of(_, _)
ts_of(t, list) ==
    IF list = <<>> THEN <<>> ELSE <<node_transform(t, Head(list))>> \o ts_of(t, Tail(list))

\* abs_transform, the loop that appends ts_list in reverse to abs_ts
RECURSIVE append_rev(_, _)
append_rev(abs_ts, ts_list) ==
    IF ts_list = <<>> THEN abs_ts
    ELSE Transform_append(append_rev(abs_ts, Tail(ts_list)), Head(ts_list))

\* an abs_transform of the strict ancestors only
abs_transform_strict(t, n) ==
    append_rev(Transform_default, ts_of(t, skip_1(tree_ancestors(t, n))))

\* NodeExt::abs_transform
abs_transform(t, n) == append_rev(Transform_default, ts_of(t, tree_ancestors(t, n)))

(***************************************************************************)
(* Bounding boxes.  Coordinates are whole numbers, far apart next to the   *)
(* fuzzy tolerance, so that fuzzy and exact equality of boxes agree.       *)
(***************************************************************************)
\* f64::MAX
F64Max == 1000

\* PathBbox::new_bbox: the box no child has expanded yet
PathBbox_new_bbox == Rect(F64Max, F64Max, 1, 1)

\* FuzzyEq for PathBbox
bbox_fuzzy_eq(b1, b2) == b1 = b2

Min(x, y) == IF x <= y THEN x ELSE y

Max(x, y) == IF x >= y THEN x ELSE y

\* PathBbox::expand: r itself for a new box, else the smallest box around both
expand(bbox, r) ==
    IF bbox_fuzzy_eq(bbox, PathBbox_new_bbox) THEN r
    ELSE LET x1 == Min(bbox.x, r.x)
             y1 == Min(bbox.y, r.y)
             x2 == Max(bbox.x + bbox.w, r.x + r.w)
             y2 == Max(bbox.y + bbox.h, r.y + r.h)
         IN  Rect(x1, y1, x2 - x1, y2 - y1)

\* PathData::bbox_with_transform of a path without stroke whose segments
\* run along the rectangle data: the box around its transformed corners
bbox_with_transform(data, ts) ==
    IF ~data.some THEN None
    ELSE LET r == data.v
             p1 == Transform_apply(ts, r.x, r.y)
             p2 == Transform_apply(ts, r.x + r.w, r.y)
             p3 == Transform_apply(ts, r.x, r.y + r.h)
             p4 == Transform_apply(ts, r.x + r.w, r.y + r.h)
             x1 == Min(Min(p1.x, p2.x), Min(p3.x, p4.x))
             y1 == Min(Min(p1.y, p2.y), Min(p3.y, p4.y))
             x2 == Max(Max(p1.x, p2.x), Max(p3.x, p4.x))
             y2 == Max(Max(p1.y, p2.y), Max(p3.y, p4.y))
         IN  Some(Rect(x1, y1, x2 - x1, y2 - y1))

\* a calc_node_bbox that hands its own transform down to the children
RECURSIVE calc_node_bbox_same_ts(_, _, _)
RECURSIVE expand_children_same_ts(_, _, _, _)
expand_children_same_ts(t, cs, ts, bbox) ==
    IF cs = <<>> THEN bbox
    ELSE LET c_bbox == calc_node_bbox_same_ts(t, Head(cs), ts)
         IN  expand_children_same_ts(t, Tail(cs), ts,
                IF c_bbox.some THEN expand(bbox, c_bbox.v) ELSE bbox)

calc_node_bbox_same_ts(t, n, ts) ==
    CASE t[n].kind = "Path" -> bbox_with_transform(t[n].data, ts)
      [] t[n].kind = "Image" -> bbox_with_transform(t[n].data, ts)
      [] t[n].kind = "Group" ->
            LET bbox == expand_children_same_ts(t, children(t, n), ts, PathBbox_new_bbox)
            IN  IF bbox_fuzzy_eq(bbox, PathBbox_new_bbox) THEN None ELSE Some(bbox)
      [] OTHER -> None

\* calc_node_bbox, the loop over the children of a Group
RECURSIVE calc_node_bbox(_, _, _)
RECURSIVE expand_children(_, _, _, _)
expand_children(t, cs, ts, bbox) ==
    IF cs = <<>> THEN bbox
    ELSE LET child_transform == Transform_append(ts, node_transform(t, Head(cs)))
             c_bbox == calc_node_bbox(t, Head(cs), child_transform)
         IN  expand_children(t, Tail(cs), ts,
                IF c_bbox.some THEN expand(bbox, c_bbox.v) ELSE bbox)

calc_node_bbox(t, n, ts) ==
    CASE t[n].kind = "Path" -> bbox_with_transform(t[n].data, ts)
      [] t[n].kind = "Image" -> bbox_with_transform(t[n].data, ts)
      [] t[n].kind = "Group" ->
            LET bbox == expand_children(t, children(t, n), ts, PathBbox_new_bbox)
            IN  IF bbox_fuzzy_eq(bbox, PathBbox_new_bbox) THEN None ELSE Some(bbox)
      [] OTHER -> None

\* a calculate_bbox that starts from the identity
calculate_bbox_from_default(t, n) == calc_node_bbox(t, n, Transform_default)

\* NodeExt::calculate_bbox
calculate_bbox(t, n) == calc_node_bbox(t, n, abs_transform(t, n))

(***************************************************************************)
(* Specification SpecTree: a tree is grown by append_kind, node by node,   *)
(* and asked for absolute transforms and bounding boxes.                   *)
(***************************************************************************)
\* the transforms of the nodes: identity, a translation, a scaling and a
\* quarter turn
Transforms ==
    {Transform_default, Transform(1, 0, 0, 1, 1, 0), Transform(2, 0, 0, 2, 0, 0),
     Transform(0, 1, 0 - 1, 0, 0, 0)}

\* the kinds of node appended, each with the geometry it may have: a path
\* with segments or without, the view box of an image, nothing for the rest
Shapes ==
    {[kind |-> "Group", data |-> None], [kind |-> "Text", data |-> None],
     [kind |-> "Path", data |-> None], [kind |-> "Path", data |-> Some(Rect(0, 0, 2, 1))],
     [kind |-> "Image", data |-> Some(Rect(1, 1, 1, 1))]}

\* the nodes of kind Group
Groups(t) == {n \in 1..Len(t) : t[n].kind = "Group"}

InitTree ==
    /\ op = "init"
    /\ doc = <<BlankNode>>
    /\ has_bbox = TRUE
    /\ parent_clip_path = FALSE
    /\ ret = None
    /\ server_calls = 0
    /\ group = Group_default
    /\ \E ts \in Transforms : tree = <<TreeNode("Group", 0, "", ts, None, FALSE)>>
    /\ defs = <<>>
    /\ arg = None

\* NodeExt::append_kind
AppendKind ==
    /\ op = "init"
    /\ Len(tree) < MaxNodes
    /\ \E p \in Groups(tree), shape \in Shapes, ts \in Transforms :
          tree' = Append(tree, TreeNode(shape.kind, p, "", ts, shape.data, FALSE))
    /\ UNCHANGED <<op, doc, has_bbox, parent_clip_path, ret, server_calls, group, defs, arg>>

AbsTransform ==
    \E n \in 1..Len(tree) :
        /\ op = "init"
        /\ op' = "abs_transform"
        /\ arg' = n
        /\ ret' = abs_transform(tree, n)
        /\ UNCHANGED <<doc, has_bbox, parent_clip_path, server_calls, group, tree, defs>>

CalculateBbox ==
    \E n \in 1..Len(tree) :
        /\ op = "init"
        /\ op' = "calculate_bbox"
        /\ arg' = n
        /\ ret' = calculate_bbox(tree, n)
        /\ UNCHANGED <<doc, has_bbox, parent_clip_path, server_calls, group, tree, defs>>

NextTree == AppendKind \/ AbsTransform \/ CalculateBbox

SpecTree == InitTree /\ [][NextTree]_vars

(***************************************************************************)
(* Tree::node_by_id and filter_background_start_node.                      *)
(***************************************************************************)
\* Iterator::find(|node| &*node.id() == id): the first such node of the list
RECURSIVE find_id(_, _, _)
find_id(t, list, i) ==
    IF list = <<>> THEN None
    ELSE IF node_id(t, Head(list)) = i THEN Some(Head(list))
    ELSE find_id(t, Tail(list), i)

\* a node_by_id that also looks up the empty id
node_by_id_any(t, i) == find_id(t, descendants(t, 1), i)

\* Tree::node_by_id
node_by_id(t, i) == IF i = "" THEN None ELSE find_id(t, descendants(t, 1), i)

\* has_enable_background
has_enable_background(t, n) ==
    IF t[n].kind = "Group" THEN t[n].enable_background ELSE FALSE

\* Iterator::find(has_enable_background)
RECURSIVE find_enable_background(_, _)
find_enable_background(t, list) ==
    IF list = <<>> THEN None
    ELSE IF has_enable_background(t, Head(list)) THEN Some(Head(list))
    ELSE find_enable_background(t, Tail(list))

\* a filter primitive, by the inputs its kind takes
Primitive(inputs) == [inputs |-> inputs]

\* filter::Kind::has_input
has_input(kind, input) == \E j \in 1..Len(kind.inputs) : kind.inputs[j] = input

\* filter.primitives.iter().any(|c| c.kind.has_input(input))
any_has_input(filter, input) == \E j \in 1..Len(filter) : has_input(filter[j], input)

\* a start node search that begins at the node itself
filter_background_start_node_self(t, n, filter) ==
    IF ~any_has_input(filter, "BackgroundImage")
       /\ ~any_has_input(filter, "BackgroundAlpha")
    THEN None
    ELSE find_enable_background(t, tree_ancestors(t, n))

\* NodeExt::filter_background_start_node
filter_background_start_node(t, n, filter) ==
    IF ~any_has_input(filter, "BackgroundImage")
       /\ ~any_has_input(filter, "BackgroundAlpha")
    THEN None
    ELSE find_enable_background(t, skip_1(tree_ancestors(t, n)))

(***************************************************************************)
(* Specification SpecLookup: a tree of named nodes is grown by             *)
(* append_kind and searched.                                               *)
(***************************************************************************)
\* the ids of the nodes, and the ids asked for
NodeIds == {"", "a"}

AskedIds == {"", "a", "b"}

\* the nodes appended: groups with and without enable-background, paths
NamedNodes ==
    {[kind |-> "Group", id |-> i, enable_background |-> eb] :
        i \in NodeIds, eb \in BOOLEAN}
    \cup {[kind |-> "Path", id |-> i, enable_background |-> FALSE] : i \in NodeIds}

\* the filters asked about, as lists of primitives
Filters ==
    {<<>>, <<Primitive(<<"SourceGraphic">>)>>, <<Primitive(<<"BackgroundImage">>)>>,
     <<Primitive(<<"SourceGraphic">>), Primitive(<<"SourceAlpha", "BackgroundAlpha">>)>>}

InitLookup ==
    /\ op = "init"
    /\ doc = <<BlankNode>>
    /\ has_bbox = TRUE
    /\ parent_clip_path = FALSE
    /\ ret = None
    /\ server_calls = 0
    /\ group = Group_default
    /\ \E i \in NodeIds, eb \in BOOLEAN :
          tree = <<TreeNode("Group", 0, i, Transform_default, None, eb)>>
    /\ defs = <<>>
    /\ arg = None

\* NodeExt::append_kind, of a named node
AppendNamed ==
    /\ op = "init"
    /\ Len(tree) < MaxNamed
    /\ \E p \in Groups(tree), node \in NamedNodes :
          tree' = Append(tree, TreeNode(node.kind, p, node.id, Transform_default,
                                        None, node.enable_background))
    /\ UNCHANGED <<op, doc, has_bbox, parent_clip_path, ret, server_calls, group, defs, arg>>

NodeById ==
    \E i \in AskedIds :
        /\ op = "init"
        /\ op' = "node_by_id"
        /\ arg' = i
        /\ ret' = node_by_id(tree, i)
        /\ UNCHANGED <<doc, has_bbox, parent_clip_path, server_calls, group, tree, defs>>

FilterBackgroundStartNode ==
    \E n \in 1..Len(tree), filter \in Filters :
        /\ op = "init"
        /\ op' = "filter_background_start_node"
        /\ arg' = [node |-> n, filter |-> filter]
        /\ ret' = filter_background_start_node(tree, n, filter)
        /\ UNCHANGED <<doc, has_bbox, parent_clip_path, server_calls, group, tree, defs>>

NextLookup == AppendNamed \/ NodeById \/ FilterBackgroundStartNode

SpecLookup == InitLookup /\ [][NextLookup]_vars

(***************************************************************************)
(* has_text_nodes.  A ClipPath, a Mask, a Pattern and the Tree of an       *)
(* ImageKind::SVG each own a root node of their own; defs holds them, and  *)
(* a node names the one it uses by its place in defs.  ClipPath::clip_path *)
(* and Mask::mask are the link field.                                      *)
(***************************************************************************)
Def(kind, root, link) == [kind |-> kind, root |-> root, link |-> link]

\* Fill / Stroke, of which only the paint matters here
Painted(paint) == [paint |-> paint]

\* the roots that the arm of has_text_nodes for this node descends into
resources_all(ds, node) ==
    LET own(x) == IF x.some THEN <<ds[x.v].root>> ELSE <<>>
        linked(x) == IF x.some /\ ds[x.v].link.some
                     THEN <<ds[ds[x.v].link.v].root>> ELSE <<>>
        pattern(x) == IF x.some /\ x.v.paint.t = "Pattern"
                      THEN <<ds[x.v.paint.id].root>> ELSE <<>>
    IN  CASE node.kind = "Group" ->
                own(node.clip_path) \o linked(node.clip_path)
                    \o own(node.mask) \o linked(node.mask)
          [] node.kind = "Path" -> pattern(node.fill) \o pattern(node.stroke)
          [] node.kind = "Image" -> own(node.svg)
          [] OTHER -> <<>>

resources_no_stroke(ds, node) ==
    LET own(x) == IF x.some THEN <<ds[x.v].root>> ELSE <<>>
        pattern(x) == IF x.some /\ x.v.paint.t = "Pattern"
                      THEN <<ds[x.v.paint.id].root>> ELSE <<>>
    IN  CASE node.kind = "Group" -> own(node.clip_path) \o own(node.mask)
          [] node.kind = "Path" -> pattern(node.fill)
          [] OTHER -> <<>>

resources(ds, node) ==
    LET own(x) == IF x.some THEN <<ds[x.v].root>> ELSE <<>>
        pattern(x) == IF x.some /\ x.v.paint.t = "Pattern"
                      THEN <<ds[x.v.paint.id].root>> ELSE <<>>
    IN  CASE node.kind = "Group" -> own(node.clip_path) \o own(node.mask)
          [] node.kind = "Path" -> pattern(node.fill) \o pattern(node.stroke)
          [] node.kind = "Image" -> <<>>
          [] OTHER -> <<>>

RECURSIVE has_text_nodes(_, _, _), visit_nodes(_, _, _), visit_roots(_, _, _)
\* fn has_text_nodes(root)
has_text_nodes(t, ds, root) == visit_nodes(t, ds, descendants(t, root))

\* for node in root.descendants() { match *node.borrow() { .. } }
visit_nodes(t, ds, list) ==
    IF list = <<>> THEN FALSE
    ELSE IF t[Head(list)].kind = "Text" THEN TRUE
    ELSE IF visit_roots(t, ds, resources(ds, t[Head(list)])) THEN TRUE
    ELSE visit_nodes(t, ds, Tail(list))

\* if has_text_nodes(&x.root) { return true; }, once for each
visit_roots(t, ds, roots) ==
    IF roots = <<>> THEN FALSE
    ELSE IF has_text_nodes(t, ds, Head(roots)) THEN TRUE
    ELSE visit_roots(t, ds, Tail(roots))

\* Tree::has_text_nodes
Tree_has_text_nodes(t, ds) == has_text_nodes(t, ds, 1)

(***************************************************************************)
(* SpecText: a tree with resources is built, then asked for text nodes.    *)
(***************************************************************************)
NodeKinds == {"Group", "Path", "Image", "Text"}

DefKinds == {"ClipPath", "Mask", "Pattern", "Tree"}

\* rctree: the root of the tree that node n is in
root_of(t, n) == LET a == tree_ancestors(t, n) IN a[Len(a)]

\* the nodes that node n leads to by any field at all
RECURSIVE leads_to(_, _, _)
leads_to(t, ds, S) ==
    LET next == S \cup {m \in 1..Len(t) : t[m].parent \in S}
                  \cup {ds[r].root : r \in {r \in 1..Len(ds) :
                          \E n \in S : \/ t[n].clip_path = Some(r)
                                       \/ t[n].mask = Some(r)
                                       \/ t[n].svg = Some(r)
                                       \/ \E u \in {"UserSpaceOnUse"} :
                                            Some(Painted(PaintServer("Pattern", r, u)))
                                                \in {t[n].fill, t[n].stroke}
                                       \/ \E q \in 1..Len(ds) :
                                            ds[q].root = n /\ ds[q].link = Some(r)}}
    IN  IF next = S THEN S ELSE leads_to(t, ds, next)

InitText ==
    /\ op = "init"
    /\ doc = <<BlankNode>>
    /\ has_bbox = TRUE
    /\ parent_clip_path = FALSE
    /\ ret = None
    /\ server_calls = 0
    /\ group = Group_default
    /\ tree = <<TreeNode("Group", 0, "", Transform_default, None, FALSE)>>
    /\ defs = <<>>
    /\ arg = None

\* NodeExt::append_kind
AppendText ==
    /\ op = "init"
    /\ Len(tree) < MaxTextNodes
    /\ \E p \in Groups(tree), kind \in NodeKinds :
          tree' = Append(tree, TreeNode(kind, p, "", Transform_default, None, FALSE))
    /\ UNCHANGED <<op, doc, has_bbox, parent_clip_path, ret, server_calls, group, defs, arg>>

\* a new ClipPath, Mask, Pattern or embedded Tree, with its root
Define ==
    /\ op = "init"
    /\ Len(tree) < MaxTextNodes
    /\ Len(defs) < MaxDefs
    /\ \E kind \in DefKinds :
       \E link \in {None} \cup {Some(r) : r \in {r \in 1..Len(defs) :
                        defs[r].kind = kind /\ kind \in {"ClipPath", "Mask"}}} :
          /\ tree' = Append(tree, TreeNode("Group", 0, "", Transform_default, None, FALSE))
          /\ defs' = Append(defs, Def(kind, Len(tree) + 1, link))
    /\ UNCHANGED <<op, doc, has_bbox, parent_clip_path, ret, server_calls, group, arg>>

\* a node is given one of the resources: Group::clip_path, Group::mask,
\* Path::fill, Path::stroke, Image::kind.  A resource is never used from
\* inside what it leads to.
Use ==
    /\ op = "init"
    /\ \E n \in 1..Len(tree), r \in 1..Len(defs) :
          /\ root_of(tree, n) \notin leads_to(tree, defs, {defs[r].root})
          /\ \E field \in {"clip_path", "mask", "fill", "stroke", "svg"} :
                /\ tree[n][field] = None
                /\ \/ /\ tree[n].kind = "Group"
                      /\ <<field, defs[r].kind>> \in
                            {<<"clip_path", "ClipPath">>, <<"mask", "Mask">>}
                      /\ tree' = [tree EXCEPT ![n][field] = Some(r)]
                   \/ /\ tree[n].kind = "Path"
                      /\ field \in {"fill", "stroke"}
                      /\ defs[r].kind = "Pattern"
                      /\ tree' = [tree EXCEPT ![n][field] =
                            Some(Painted(PaintServer("Pattern", r, "UserSpaceOnUse")))]
                   \/ /\ tree[n].kind = "Image"
                      /\ field = "svg"
                      /\ defs[r].kind = "Tree"
                      /\ tree' = [tree EXCEPT ![n][field] = Some(r)]
    /\ UNCHANGED <<op, doc, has_bbox, parent_clip_path, ret, server_calls, group, defs, arg>>

\* a path is painted with a plain colour
PaintPlain ==
    /\ op = "init"
    /\ \E n \in 1..Len(tree), field \in {"fill", "stroke"} :
          /\ tree[n].kind = "Path"
          /\ tree[n][field] = None
          /\ tree' = [tree EXCEPT ![n][field] = Some(Painted(PaintColor(ColorBlack)))]
    /\ UNCHANGED <<op, doc, has_bbox, parent_clip_path, ret, server_calls, group, defs, arg>>

HasTextNodes ==
    /\ op = "init"
    /\ op' = "has_text_nodes"
    /\ ret' = Tree_has_text_nodes(tree, defs)
    /\ UNCHANGED <<doc, has_bbox, parent_clip_path, server_calls, group, tree, defs, arg>>

NextText == AppendText \/ Define \/ Use \/ PaintPlain \/ HasTextNodes

SpecText == InitText /\ [][NextText]_vars

(***************************************************************************)
(* What the claims speak of, read off the document itself.                 *)
(***************************************************************************)
\* the nearest node of the self-to-root chain that declares aid, 0 if none
Nearest(aid) ==
    IF \A j \in 1..Len(doc) : doc[j][aid] = Absent THEN 0
    ELSE CHOOSE j \in 1..Len(doc) :
            /\ doc[j][aid] # Absent
            /\ \A i \in 1..(j - 1) : doc[i][aid] = Absent

\* the value the nearest declarer of aid gives it, Absent if there is none
NearestValue(aid) == IF Nearest(aid) = 0 THEN Absent ELSE doc[Nearest(aid)][aid]

\* the paint attribute the last call resolved
CalledAId == IF op = "resolve_fill" THEN "fill" ELSE "stroke"

\* a paint call was made outside clip-path content
PaintCall == op \in {"resolve_fill", "resolve_stroke"} /\ ~parent_clip_path

\* text that is no paint
Unparseable(v) ==
    /\ v.k \notin {"absent", "color", "url"}
    /\ ~(v.k = "text" /\ v.s \in {"none", "inherit", "currentColor"})

\* the rule a rule attribute gives the node: that of its nearest declarer
RuleFrom(aid) == IF NearestValue(aid) = Text("evenodd") THEN "EvenOdd" ELSE "NonZero"

\* the node's own opacity attribute, 1 when absent or no number
OwnOpacity(aid) ==
    LET v == doc[1][aid]
    IN  IF v.k # "num" THEN ONE
        ELSE IF v.n > ONE THEN ONE ELSE IF v.n < 0 THEN 0 ELSE v.n

\* the colour `color` gives node j: that of its nearest declarer, else black
InheritedColor(j) ==
    LET S == {i \in j..Len(doc) : doc[i]["color"] # Absent}
        i == CHOOSE i \in S : \A h \in S : i <= h
    IN  IF S = {} \/ doc[i]["color"].k # "color" THEN [rgb |-> "black", a |-> ONE]
        ELSE [rgb |-> doc[i]["color"].rgb, a |-> doc[i]["color"].a]

\* the stroke width resolves to a length above zero
WidthValid ==
    LET w == NearestValue("stroke-width") IN w = Absent \/ (w.k = "num" /\ w.n > 0)

\* the call returned the flat colour c, its alpha times the node's own opacity
ReturnedColor(c) ==
    /\ ret.some
    /\ ret.v.paint = [t |-> "Color", rgb |-> c.rgb]
    /\ ret.v.opacity = (c.a * OwnOpacity(IF op = "resolve_fill" THEN "fill-opacity"
                                          ELSE "stroke-opacity")) \div ONE

\* the call returned what the fallback clause fb of the declarer's paint gives
ReturnedFallback(fb) ==
    CASE fb.k = "color" -> WidthValid \/ op = "resolve_fill" => ReturnedColor(fb)
      [] fb.k = "text" /\ fb.s = "currentColor" ->
            WidthValid \/ op = "resolve_fill" =>
                ReturnedColor(InheritedColor(Nearest(CalledAId)))
      [] OTHER -> ret = None

\* the call returned the paint server the declarer's paint names
ReturnedServer(id) ==
    WidthValid \/ op = "resolve_fill" =>
        /\ ret.some
        /\ ret.v.paint.t # "Color"
        /\ ret.v.paint.id = id
        /\ ret.v.paint.units = Elements[id].units
        /\ ret.v.opacity = OwnOpacity(IF op = "resolve_fill" THEN "fill-opacity"
                                      ELSE "stroke-opacity")

(***************************************************************************)
(* Group isolation (SpecGroup).                                            *)
(***************************************************************************)
\* C1: a Group should be isolated exactly when its isolate flag is set, or
\* its opacity is not 1, or it has a clip path, or a mask, or a non-empty
\* filter list, or a blend mode other than Normal; the default Group is
\* not isolated.
C1_ShouldIsolate ==
    op = "should_isolate" =>
        /\ ret.v <=> \/ group.isolate
                     \/ group.opacity # ONE
                     \/ group.clip_path # None
                     \/ group.mask # None
                     \/ group.filters # <<>>
                     \/ group.blend_mode # "Normal"
        /\ group = Group_default => ret.v = FALSE

\* a group that only its blend mode isolates
C1_Witness ==
    /\ op = "should_isolate"
    /\ group = [Group_default EXCEPT !.blend_mode = "Multiply"]
    /\ ret.v = TRUE

(***************************************************************************)
(* Fill and stroke resolution (Spec).                                      *)
(***************************************************************************)
\* the fill returned is opaque black before the node's own fill-opacity
BlackFill ==
    /\ ret.some
    /\ ret.v.paint = [t |-> "Color", rgb |-> "black"]
    /\ ret.v.opacity = OwnOpacity("fill-opacity")

\* the nearest fill declarer carries text that is no paint
UnparseableFill ==
    /\ op = "resolve_fill"
    /\ ~parent_clip_path
    /\ Unparseable(NearestValue("fill"))

\* C2 as stated: outside clip-path content, when the nearest fill declarer
\* carries an unparseable value, resolve_fill yields a Fill painted opaque
\* black with the default fill rule, its opacity 1 unless the node's own
\* fill-opacity overrides it.
C2_AsStated == UnparseableFill => BlackFill /\ ret.v.rule = "NonZero"

\* C2: outside clip-path content, when the nearest fill declarer carries an
\* unparseable value, resolve_fill yields a Fill painted opaque black, its
\* opacity 1 unless the node's own fill-opacity overrides it, and its rule
\* the one the nearest fill-rule declarer gives, NonZero when there is none
\* or its value is no rule.
C2_UnparseableFill == UnparseableFill => BlackFill /\ ret.v.rule = RuleFrom("fill-rule")

\* an unparseable fill on the parent, evenodd on the node itself
C2_Witness ==
    /\ UnparseableFill
    /\ Nearest("fill") = 2
    /\ doc[1]["fill-rule"] = Text("evenodd")
    /\ BlackFill
    /\ ret.v.rule = "EvenOdd"

\* C3: outside clip-path content, when no node of the chain declares fill,
\* resolve_fill yields a Fill painted opaque black whose opacity is the
\* node's own fill-opacity, 1 when that is absent.
C3_UndeclaredFill ==
    op = "resolve_fill" /\ ~parent_clip_path /\ Nearest("fill") = 0 => BlackFill

\* no fill anywhere, and a fill-opacity of one half on the node
C3_Witness ==
    /\ op = "resolve_fill"
    /\ ~parent_clip_path
    /\ Nearest("fill") = 0
    /\ doc[1]["fill-opacity"] = Num(HALF)
    /\ BlackFill
    /\ ret.v.opacity = HALF

\* the stroke paint is undeclared, `none`, or no paint at all
NoStrokePaint ==
    \/ Nearest("stroke") = 0
    \/ NearestValue("stroke") = Text("none")
    \/ Unparseable(NearestValue("stroke"))

\* C4: resolve_stroke yields no stroke when no node of the chain declares
\* stroke, when the declared paint is `none`, and when the declared paint
\* is unparseable.
C4_NoStroke == op = "resolve_stroke" /\ NoStrokePaint => ret = None

\* an unparseable stroke on the node, outside clip-path content
C4_Witness ==
    /\ op = "resolve_stroke"
    /\ ~parent_clip_path
    /\ doc[1]["stroke"] = Text("bogus")
    /\ Nearest("stroke-width") = 0
    /\ ret = None

\* the paint the last call resolved, when it is a functional IRI
CalledPaint == NearestValue(CalledAId)

\* a paint call on a functional IRI, outside clip-path content
FuncIRICall == PaintCall /\ CalledPaint.k = "url"

\* the id names an element that paint_server::convert turns into a server
ResolvesToServer(id) ==
    /\ id \in DOMAIN Elements
    /\ is_paint_server(Elements[id].tag)
    /\ paint_server_convert(element_by_id(id).v).some
    /\ paint_server_convert(element_by_id(id).v).v.s = "Server"

\* C5: when the paint is a functional IRI that resolves to a paint server
\* with ObjectBoundingBox units and the shape has no bounding box, the
\* server is never the paint returned: the result is what the fallback
\* clause gives (its colour and alpha), no paint without a fallback clause;
\* with a bounding box, or with UserSpaceOnUse units, the server itself is
\* returned.
C5_ServerUnits ==
    FuncIRICall /\ ResolvesToServer(CalledPaint.id) =>
        IF ~has_bbox /\ Elements[CalledPaint.id].units = "ObjectBoundingBox"
        THEN /\ ReturnedFallback(CalledPaint.fb)
             /\ ret.some => ret.v.paint.t = "Color"
        ELSE ReturnedServer(CalledPaint.id)

\* a fill through an object-bounding-box gradient on a shape with no
\* bounding box comes out as the fallback colour
C5_Witness ==
    /\ op = "resolve_fill"
    /\ ~parent_clip_path
    /\ ~has_bbox
    /\ doc[1]["fill"] = UrlText("lgObb", ColorText("blue", HALF))
    /\ doc[1]["fill-opacity"] = Absent
    /\ ret = Some([paint |-> [t |-> "Color", rgb |-> "blue"], opacity |-> HALF,
                   rule |-> RuleFrom("fill-rule")])

Unusable(id) ==
    \/ id \notin DOMAIN Elements
    \/ /\ is_paint_server(Elements[id].tag)
       /\ ~paint_server_convert(element_by_id(id).v).some

\* a paint call on an unusable functional IRI that has no fallback clause
UnusableCall == FuncIRICall /\ Unusable(CalledPaint.id) /\ CalledPaint.fb = Absent

C8_ClipPath ==
    parent_clip_path =>
        /\ op = "resolve_fill" =>
              /\ ret = Some([paint |-> [t |-> "Color", rgb |-> "black"],
                             opacity |-> ONE, rule |-> RuleFrom("clip-rule")])
              /\ server_calls = 0
        /\ op = "resolve_stroke" => ret = None /\ server_calls = 0

\* inside clip-path content a gradient fill with fill-rule evenodd is black
\* with the default rule
C8_Witness ==
    /\ parent_clip_path
    /\ has_bbox
    /\ op = "resolve_fill"
    /\ doc[1]["fill"] = UrlText("lgObb", Absent)
    /\ doc[1]["fill-rule"] = Text("evenodd")
    /\ ret.v.rule = "NonZero"
    /\ server_calls = 0

(***************************************************************************)
(* Dash arrays (SpecDash).                                                 *)
(***************************************************************************)
\* what the nearest declarer of stroke-dasharray declares
DeclaredDashes == NearestValue("stroke-dasharray")

\* the sum of the numbers a list of floats stands for
RECURSIVE SumVal(_)
SumVal(list) == IF list = <<>> THEN 0 ELSE Val(Head(list)) + SumVal(Tail(list))

\* C9 as stated: conv_dasharray yields no dashing if and only if no node of
\* the chain declares stroke-dasharray, or the declared list cannot be
\* converted, or the list has a negative entry, or its entries sum to zero.
C9_AsStated ==
    op = "conv_dasharray" =>
        (ret = None <=>
            \/ DeclaredDashes = Absent
            \/ DeclaredDashes.k # "list"
            \/ \E i \in 1..Len(DeclaredDashes.l) : Val(DeclaredDashes.l[i]) < 0
            \/ SumVal(DeclaredDashes.l) = 0)

\* C9: conv_dasharray yields no dashing if and only if no node of the chain
\* declares stroke-dasharray, or the declared list cannot be converted, or
\* the list has an entry whose sign bit is set (a negative number or -0.0),
\* or its entries sum to within the fuzzy tolerance of zero.
C9_NoDashing ==
    op = "conv_dasharray" =>
        (ret = None <=>
            \/ DeclaredDashes = Absent
            \/ DeclaredDashes.k # "list"
            \/ \E i \in 1..Len(DeclaredDashes.l) : DeclaredDashes.l[i].neg
            \/ /\ SumVal(DeclaredDashes.l) <= FuzzyTol
               /\ 0 - SumVal(DeclaredDashes.l) <= FuzzyTol)

\* the list -0.0, 2 has no negative entry and sums to 2, and is not dashed
C9_Witness ==
    /\ op = "conv_dasharray"
    /\ doc[1]["stroke-dasharray"] = List(<<NegZero, F(FALSE, 2)>>)
    /\ ret = None

\* C10: when conv_dasharray yields a list, a declared list of odd length is
\* returned concatenated with itself and one of even length is returned
\* unchanged; every dash pattern stored in a Stroke has a non-zero even
\* number of entries, none of them negative.
C10_EvenDashes ==
    /\ op = "conv_dasharray" /\ ret.some =>
          ret.v = IF Len(DeclaredDashes.l) % 2 = 1
                  THEN DeclaredDashes.l \o DeclaredDashes.l
                  ELSE DeclaredDashes.l
    /\ op = "resolve_stroke" /\ ret.some =>
          (ret.v.dasharray.some =>
              /\ Len(ret.v.dasharray.v) > 0
              /\ Len(ret.v.dasharray.v) % 2 = 0
              /\ \A i \in 1..Len(ret.v.dasharray.v) :
                    /\ Val(ret.v.dasharray.v[i]) >= 0
                    /\ ~ret.v.dasharray.v[i].neg)

\* the list 1, 2, 3 comes back as 1, 2, 3, 1, 2, 3
C10_Witness ==
    /\ op = "conv_dasharray"
    /\ doc[1]["stroke-dasharray"] = List(<<F(FALSE, 1), F(FALSE, 2), F(FALSE, 3)>>)
    /\ ret = Some(<<F(FALSE, 1), F(FALSE, 2), F(FALSE, 3),
                    F(FALSE, 1), F(FALSE, 2), F(FALSE, 3)>>)

(***************************************************************************)
(* Miter limit, opacity and the nearest declarer (Spec).                   *)
(***************************************************************************)
\* the miter limit the chain asks for, 4.0 when it asks for none
RequestedMiterlimit ==
    LET m == NearestValue("stroke-miterlimit")
    IN  IF m.k = "num" THEN m.n ELSE MiterDefault

\* C11: the miter limit stored in a Stroke that resolve_stroke produces is
\* max(requested, 1.0), requested being 4.0 when no stroke-miterlimit is
\* declared; it is never below 1.0 and StrokeMiterlimit::new is never
\* given a value below 1.0.
C11_Miterlimit ==
    op = "resolve_stroke" /\ ret.some =>
        /\ ret.v.miterlimit = IF RequestedMiterlimit > MiterOne
                              THEN RequestedMiterlimit ELSE MiterOne
        /\ ret.v.miterlimit >= MiterOne
        /\ miterlimit_at_least_one(doc, 1) >= MiterOne

\* a stroke that asks for a miter limit of 0.5 stores 1.0
C11_Witness ==
    /\ op = "resolve_stroke"
    /\ doc[1]["stroke-miterlimit"] = Num(1)
    /\ ret.some
    /\ ret.v.miterlimit = MiterOne

\* the alpha of the paint the call chose: of the fallback clause fb
FallbackAlpha(fb) ==
    IF fb.k = "color" THEN fb.a ELSE InheritedColor(Nearest(CalledAId)).a

\* the alpha of the paint the call chose
PaintAlpha ==
    LET v == CalledPaint
    IN  CASE v.k = "color" -> v.a
          [] v.k = "text" /\ v.s = "currentColor" ->
                InheritedColor(Nearest(CalledAId)).a
          [] v.k = "url" ->
                IF v.id \notin DOMAIN Elements THEN FallbackAlpha(v.fb)
                ELSE LET conv == paint_server_convert(element_by_id(v.id).v)
                     IN  IF ~conv.some THEN FallbackAlpha(v.fb)
                         ELSE IF conv.v.s = "Color" THEN conv.v.opacity
                         ELSE IF ~has_bbox /\ Elements[v.id].units = "ObjectBoundingBox"
                         THEN FallbackAlpha(v.fb)
                         ELSE ONE
          [] OTHER -> ONE

\* C17: the opacity of every Fill and Stroke produced outside clip-path
\* content is the alpha of the paint chosen times the node's own
\* fill-opacity or stroke-opacity (1 if the node has none), and lies in
\* [0,1].
C17_Opacity ==
    PaintCall /\ ret.some =>
        /\ ret.v.opacity =
              (PaintAlpha * OwnOpacity(IF op = "resolve_fill" THEN "fill-opacity"
                                       ELSE "stroke-opacity")) \div ONE
        /\ ret.v.opacity >= 0
        /\ ret.v.opacity <= ONE

\* a fill through a one-stop gradient of alpha one half, with a fill-opacity
\* of one half on the node, has opacity one quarter
C17_Witness ==
    /\ op = "resolve_fill"
    /\ ~parent_clip_path
    /\ doc[1]["fill"] = UrlText("lgFlat", Absent)
    /\ doc[1]["fill-opacity"] = Num(HALF)
    /\ ret.some
    /\ ret.v.opacity = ONE \div 4

\* the document without what the nodes above the nearest declarer of aid
\* declare aid as
NearestOnly(aid) ==
    [j \in 1..Len(doc) |->
        IF j > Nearest(aid) /\ Nearest(aid) # 0
        THEN [doc[j] EXCEPT ![aid] = Absent] ELSE doc[j]]

\* C18: fill and stroke paint are interpreted only from the nearest
\* declarer of the chain: when its value yields no paint the result is no
\* fill / no stroke whatever a farther ancestor declares, and the result
\* is what it would be if no farther ancestor declared the attribute.
C18_NearestDeclarer ==
    PaintCall =>
        /\ \/ CalledPaint = Text("none")
           \/ CalledPaint = Text("inherit")
           => ret = None
        /\ op = "resolve_fill" =>
              ret = resolve_fill(NearestOnly("fill"), 1, has_bbox, FALSE).val
        /\ op = "resolve_stroke" =>
              ret = resolve_stroke(NearestOnly("stroke"), 1, has_bbox, FALSE).val

\* a stroke of none on the node and a colour on its parent give no stroke
C18_Witness ==
    /\ op = "resolve_stroke"
    /\ ~parent_clip_path
    /\ Len(doc) >= 2
    /\ doc[1]["stroke"] = Text("none")
    /\ doc[2]["stroke"] = ColorText("red", HALF)
    /\ ret = None

(***************************************************************************)
(* Absolute transforms and bounding boxes (SpecTree).                      *)
(***************************************************************************)
\* the transforms from the root down to node n composed, the root's first;
\* the identity for n = 0, above the root
RECURSIVE RootFirst(_)
RootFirst(n) ==
    IF n = 0 THEN Transform_default
    ELSE Transform_append(RootFirst(tree[n].parent), tree[n].transform)

\* C12 as stated: abs_transform of a node is the composition of the own
\* transforms of its ancestors, root first; it is the identity for a root.
C12_AsStated ==
    op = "abs_transform" =>
        /\ ret = RootFirst(tree[arg].parent)
        /\ tree[arg].parent = 0 => ret = Transform_default

\* C12: abs_transform of a node is the composition of the own transforms of
\* its ancestors and of the node itself, root first and the node's own
\* last; for a root it is the root's own transform.
C12_AbsTransform ==
    op = "abs_transform" =>
        /\ ret = RootFirst(arg)
        /\ tree[arg].parent = 0 => ret = tree[arg].transform

\* a quarter turn inside a scaling inside a translation
C12_Witness ==
    /\ op = "abs_transform"
    /\ Len(tree) = 3
    /\ arg = 3
    /\ tree[3].parent = 2
    /\ tree[1].transform = Transform(1, 0, 0, 1, 1, 0)
    /\ tree[2].transform = Transform(2, 0, 0, 2, 0, 0)
    /\ tree[3].transform = Transform(0, 1, 0 - 1, 0, 0, 0)
    /\ ret = Transform(0, 2, 0 - 2, 0, 1, 0)

\* the children of node n
ChildrenOf(n) == {c \in 1..Len(tree) : tree[c].parent = n}

\* node n has geometry to box: a path with segments, an image, or a group
\* with such a node below it; never a text
RECURSIVE Contributes(_)
Contributes(n) ==
    CASE tree[n].kind \in {"Path", "Image"} -> tree[n].data.some
      [] tree[n].kind = "Group" -> \E c \in ChildrenOf(n) : Contributes(c)
      [] OTHER -> FALSE

\* calculate_bbox was asked of a group whose only child is a path with
\* segments
OnePathChild ==
    /\ op = "calculate_bbox"
    /\ tree[arg].kind = "Group"
    /\ Cardinality(ChildrenOf(arg)) = 1
    /\ \A c \in ChildrenOf(arg) : tree[c].kind = "Path" /\ tree[c].data.some

\* calculate_bbox was asked of a group none of whose children has a box
NoChildBox ==
    /\ op = "calculate_bbox"
    /\ tree[arg].kind = "Group"
    /\ \A c \in ChildrenOf(arg) : ~Contributes(c)

\* C13 as stated: calculate_bbox on a Group returns none when the group has
\* no children or every child contributes no box; on a group with exactly
\* one child path of known geometry it returns that path's box transformed
\* by the child's transform.
C13_AsStated ==
    /\ NoChildBox => ret = None
    /\ OnePathChild =>
          \A c \in ChildrenOf(arg) :
              ret = bbox_with_transform(tree[c].data, tree[c].transform)

\* C13: calculate_bbox on a Group returns none when the group has no
\* children or every child contributes no box; on a group with exactly one
\* child path of known geometry it returns that path's box transformed by
\* the transforms of the group's ancestors, of the group and of the child,
\* composed root first.
C13_GroupBbox ==
    /\ NoChildBox => ret = None
    /\ OnePathChild =>
          \A c \in ChildrenOf(arg) :
              ret = bbox_with_transform(tree[c].data, RootFirst(c))

\* a scaled group whose only child is a path
C13_Witness ==
    /\ OnePathChild
    /\ arg = 1
    /\ tree[1].transform = Transform(2, 0, 0, 2, 0, 0)
    /\ tree[2].transform = Transform_default
    /\ ret = Some(Rect(0, 0, 4, 2))

\* the boxes the children of node n return
ChildBoxes(n) ==
    {calculate_bbox(tree, c).v : c \in {c \in ChildrenOf(n) : calculate_bbox(tree, c).some}}

\* the smallest box around the boxes of a non-empty set
UnionBox(B) ==
    LET x1 == CHOOSE x \in {b.x : b \in B} : \A b \in B : x <= b.x
        y1 == CHOOSE y \in {b.y : b \in B} : \A b \in B : y <= b.y
        x2 == CHOOSE x \in {b.x + b.w : b \in B} : \A b \in B : x >= b.x + b.w
        y2 == CHOOSE y \in {b.y + b.h : b \in B} : \A b \in B : y >= b.y + b.h
    IN  Rect(x1, y1, x2 - x1, y2 - y1)

\* C20: for every Group G, G.calculate_bbox() is the union of
\* c.calculate_bbox() over the children c of G that return a box, none when
\* no child returns one; the transform G's recursion hands a child is that
\* child's abs_transform.
C20_BboxLevels ==
    op = "calculate_bbox" /\ tree[arg].kind = "Group" =>
        /\ ret = IF ChildBoxes(arg) = {} THEN None ELSE Some(UnionBox(ChildBoxes(arg)))
        /\ \A c \in ChildrenOf(arg) :
              Transform_append(abs_transform(tree, arg), tree[c].transform)
                  = abs_transform(tree, c)

\* a moved root with two children whose boxes differ from their union
C20_Witness ==
    /\ op = "calculate_bbox"
    /\ arg = 1
    /\ tree[1].transform = Transform(1, 0, 0, 1, 1, 0)
    /\ Cardinality(ChildBoxes(1)) = 2
    /\ ret.some
    /\ ret.v \notin ChildBoxes(1)

(***************************************************************************)
(* Lookups in the tree (SpecLookup).                                       *)
(***************************************************************************)
\* the nodes from the root down to node n
RECURSIVE RootPath(_)
RootPath(n) == IF n = 0 THEN <<>> ELSE Append(RootPath(tree[n].parent), n)

\* node a comes before node b in document order: a is above b, or where
\* their paths from the root part, a's goes through the earlier sibling
DocBefore(a, b) ==
    LET pa == RootPath(a)
        pb == RootPath(b)
    IN  /\ a # b
        /\ \/ Len(pa) < Len(pb) /\ \A j \in 1..Len(pa) : pa[j] = pb[j]
           \/ \E i \in 1..Len(pa) :
                 /\ i <= Len(pb)
                 /\ \A j \in 1..(i - 1) : pa[j] = pb[j]
                 /\ pa[i] < pb[i]

\* the nodes whose id is i
Named(i) == {n \in 1..Len(tree) : tree[n].id = i}

\* C15: node_by_id with an empty id returns none even when nodes with an
\* empty id exist; with a non-empty id it returns a node if and only if
\* some node of the tree, the root included, has that id, and the node
\* returned is the first such node in document order.
C15_NodeById ==
    op = "node_by_id" =>
        IF arg = "" THEN ret = None
        ELSE /\ ret.some <=> Named(arg) # {}
             /\ ret.some =>
                   /\ ret.v \in Named(arg)
                   /\ \A m \in Named(arg) \ {ret.v} : DocBefore(ret.v, m)

\* of two nodes named a, the one appended last comes first in the document
C15_Witness ==
    /\ op = "node_by_id"
    /\ arg = "a"
    /\ Len(tree) = 4
    /\ Named("a") = {3, 4}
    /\ tree[3].parent = 1
    /\ tree[4].parent = 2
    /\ ret = Some(4)

\* the strict ancestors of node n
RECURSIVE StrictAncestors(_)
StrictAncestors(n) ==
    IF tree[n].parent = 0 THEN {}
    ELSE {tree[n].parent} \cup StrictAncestors(tree[n].parent)

\* the strict ancestors of node n that are groups with enable-background
Backgrounds(n) ==
    {a \in StrictAncestors(n) : tree[a].kind = "Group" /\ tree[a].enable_background}

\* some primitive of the filter takes the background as input
UsesBackground(filter) ==
    \E j \in 1..Len(filter) : \E k \in 1..Len(filter[j].inputs) :
        filter[j].inputs[k] \in {"BackgroundImage", "BackgroundAlpha"}

\* C16: filter_background_start_node returns none when no primitive of the
\* filter takes BackgroundImage or BackgroundAlpha as input; otherwise it
\* returns the nearest strict ancestor that is a Group with
\* enable-background set, none if there is no such ancestor; it never
\* returns the node itself.
C16_BackgroundStart ==
    op = "filter_background_start_node" =>
        /\ ~UsesBackground(arg.filter) => ret = None
        /\ UsesBackground(arg.filter) /\ Backgrounds(arg.node) = {} => ret = None
        /\ UsesBackground(arg.filter) /\ Backgrounds(arg.node) # {} =>
              /\ ret.some
              /\ ret.v \in Backgrounds(arg.node)
              /\ \A b \in Backgrounds(arg.node) \ {ret.v} : b \in StrictAncestors(ret.v)
        /\ ret.some => ret.v # arg.node

\* a group with enable-background set, below two more of them, starts at
\* its parent
C16_Witness ==
    /\ op = "filter_background_start_node"
    /\ arg.node = 3
    /\ arg.filter = <<Primitive(<<"BackgroundImage">>)>>
    /\ tree[3].parent = 2
    /\ tree[1].enable_background
    /\ tree[2].enable_background
    /\ tree[3].enable_background
    /\ ret = Some(2)

(***************************************************************************)
(* Text nodes (SpecText).                                                  *)
(***************************************************************************)
\* the pattern that a fill or stroke paints with, if it paints with one
PatternOf(x) ==
    IF x.some /\ x.v.paint.t = "Pattern" THEN {x.v.paint.id} ELSE {}

\* the nodes reached from the nodes of S by the links parent -> child,
\* group -> clip-path content, group -> mask content and
\* path -> content of the pattern of its fill or stroke
RECURSIVE Reachable(_)
Reachable(S) ==
    LET used(n) ==
            IF tree[n].kind = "Group"
            THEN {r \in 1..Len(defs) : Some(r) \in {tree[n].clip_path, tree[n].mask}}
            ELSE IF tree[n].kind = "Path"
            THEN PatternOf(tree[n].fill) \cup PatternOf(tree[n].stroke)
            ELSE {}
        next == S \cup {m \in 1..Len(tree) : tree[m].parent \in S}
                  \cup {defs[r].root : r \in UNION {used(n) : n \in S}}
    IN  IF next = S THEN S ELSE Reachable(next)

Texts == {n \in 1..Len(tree) : tree[n].kind = "Text"}

\* C14: has_text_nodes is true if and only if a Text node can be reached
\* from the root by the links parent -> child, group -> clip-path content,
\* group -> mask content and path -> pattern content, the pattern being
\* that of the fill or of the stroke.
C14_HasTextNodes ==
    op = "has_text_nodes" => (ret <=> Reachable({1}) \cap Texts # {})

\* the only text is in the pattern that a path strokes with
C14_Witness ==
    /\ op = "has_text_nodes"
    /\ ret = TRUE
    /\ Len(defs) = 1
    /\ defs[1].kind = "Pattern"
    /\ Texts # {}
    /\ \A n \in Texts : root_of(tree, n) = defs[1].root
    /\ \E n \in 1..Len(tree) :
          /\ tree[n].kind = "Path"
          /\ root_of(tree, n) = 1
          /\ tree[n].fill = None
          /\ PatternOf(tree[n].stroke) = {1}

\* C19: has_text_nodes does not follow the link of a clip path to another
\* clip path, the link of a mask to another mask, or an Image into the
\* tree embedded in it: when text can be reached from the root only
\* through one of these, has_text_nodes is false.
C19_NotFollowed ==
    /\ op = "has_text_nodes"
    /\ leads_to(tree, defs, {1}) \cap Texts # {}
    /\ Reachable({1}) \cap Texts = {}
    => ret = FALSE

\* the root is clipped by a clip path that links to a clip path with text
C19_Witness ==
    /\ op = "has_text_nodes"
    /\ ret = FALSE
    /\ Len(defs) = 2
    /\ tree[1].clip_path = Some(2)
    /\ defs[2].kind = "ClipPath"
    /\ defs[2].link = Some(1)
    /\ \E n \in Texts : tree[n].parent = defs[1].root

=============================================================================
